---- MODULE Spec2Model ----
(***************************************************************************)
(* State-machine model of the FranceMap component                          *)
(* (src/components/FranceMap.tsx): the viewport controller built on the    *)
(* d3 zoom behaviour, the responsive device-class check, the boundary-data *)
(* fetch with the adapter and the inset rendering, the hover and selection *)
(* handlers and the temporal overlay calculator.                           *)
(*                                                                         *)
(* Numbers the component computes in floating point (scale factors 1.5 and *)
(* 0.66, translations) are modelled as exact rationals <<n, d>>, d > 0, in *)
(* lowest terms.                                                           *)
(***************************************************************************)
EXTENDS Integers, Sequences, FiniteSets, TLC

----------------------------------------------------------------------------
(* Exact rational arithmetic.                                              *)

Abs(n) == IF n < 0 THEN -n ELSE n

RECURSIVE GCD(_, _)
GCD(a, b) == IF b = 0 THEN a ELSE GCD(b, a % b)

Rat(n, d) ==
    LET s == IF d < 0 THEN -1 ELSE 1
        g == GCD(Abs(n), Abs(d))
    IN  <<(s * n) \div g, (s * d) \div g>>

R(n) == <<n, 1>>

\* Denominators are reduced by their common factor before multiplying, so
\* that intermediate products stay small.
RAdd(a, b) ==
    LET g == GCD(a[2], b[2])
    IN  Rat(a[1] * (b[2] \div g) + b[1] * (a[2] \div g), (a[2] \div g) * b[2])
RNeg(a)    == <<-a[1], a[2]>>
RSub(a, b) == RAdd(a, RNeg(b))
RMul(a, b) ==
    LET g1 == GCD(Abs(a[1]), b[2])
        g2 == GCD(Abs(b[1]), a[2])
    IN  Rat((a[1] \div g1) * (b[1] \div g2), (a[2] \div g2) * (b[2] \div g1))
RDiv(a, b) == RMul(a, IF b[1] < 0 THEN <<-b[2], -b[1]>> ELSE <<b[2], b[1]>>)
RLt(a, b)  ==
    LET g == GCD(a[2], b[2])
    IN  a[1] * (b[2] \div g) < b[1] * (a[2] \div g)
RLe(a, b)  ==
    LET g == GCD(a[2], b[2])
    IN  a[1] * (b[2] \div g) <= b[1] * (a[2] \div g)
RMin(a, b) == IF RLe(a, b) THEN a ELSE b
RMax(a, b) == IF RLe(a, b) THEN b ELSE a

----------------------------------------------------------------------------
(* Program constants.                                                      *)

CanvasWidth   == 550     \* viewBox width, both device classes
DesktopHeight == 550     \* viewBox / translateExtent height on desktop
MobileHeight  == 450     \* viewBox / translateExtent height on mobile
MobileBreak   == 768     \* window.innerWidth < 768 is mobile
ScaleMin      == 1       \* scaleExtent([1, 8])
ScaleMax      == 8

ZoomInFactor  == <<3, 2>>      \* scaleBy(..., 1.5)
ZoomOutFactor == <<33, 50>>    \* scaleBy(..., 0.66)

CanvasHeight(mobile) == IF mobile THEN MobileHeight ELSE DesktopHeight

----------------------------------------------------------------------------
(* The d3 zoom transform and the operations of the zoom behaviour that the *)
(* component configures and calls.                                         *)

Transform(k, x, y) == [k |-> k, x |-> x, y |-> y]

zoomIdentity == Transform(R(1), R(0), R(0))

ClampScaleNoUpper(k) == RMax(R(ScaleMin), k)

\* scaleExtent([1, 8]): a requested scale is clamped to the extent.
ClampScale(k) == RMax(R(ScaleMin), RMin(R(ScaleMax), k))

\* Canvas coordinate shown at viewport coordinate p under t (t.invert).
InvertC(tk, tx, p) == RDiv(RSub(p, tx), tk)

\* One axis of the translateExtent constraint: the view [invert(0),
\* invert(size)] is moved back inside [0, limit].  When the view is larger
\* than the limit it is centred.
ConstrainAxis(tk, tx, size, limit) ==
    LET d0 == RSub(InvertC(tk, tx, R(0)), R(0))
        d1 == RSub(InvertC(tk, tx, R(size)), R(limit))
        shift == IF RLt(d0, d1)
                 THEN RDiv(RAdd(d0, d1), R(2))
                 ELSE IF RLt(d0, R(0)) THEN d0
                 ELSE RMax(R(0), d1)
    IN  RAdd(tx, RMul(tk, shift))

ConstrainNone(t, vh, h) == t

\* translateExtent([[0, 0], [550, h]]) applied to t, with the viewport
\* extent taken from the viewBox of height vh.
Constrain(t, vh, h) ==
    Transform(t.k,
              ConstrainAxis(t.k, t.x, CanvasWidth, CanvasWidth),
              ConstrainAxis(t.k, t.y, vh, h))

\* Scale t to k (clamped) keeping the canvas point under viewport point
\* (px, py) fixed, then constrain: the body of scaleTo / wheel / pinch.
ScaleAbout(t, k, px, py, vh, h) ==
    LET k1 == ClampScale(k)
        cx == InvertC(t.k, t.x, px)
        cy == InvertC(t.k, t.y, py)
    IN  Constrain(Transform(k1, RSub(px, RMul(cx, k1)), RSub(py, RMul(cy, k1))),
                  vh, h)

\* zoom.scaleBy(selection, f): scale by f about the centre of the viewport.
ScaleBy(t, f, vh, h) ==
    ScaleAbout(t, RMul(t.k, f), Rat(CanvasWidth, 2), Rat(vh, 2), vh, h)

\* A drag step: translate by (dx, dy) viewport units, then constrain.
PanBy(t, dx, dy, vh, h) ==
    Constrain(Transform(t.k, RAdd(t.x, R(dx)), RAdd(t.y, R(dy))), vh, h)

----------------------------------------------------------------------------
(* Model bounds and the inputs drawn from small sets.                      *)

MaxSteps   == 3      \* pointer inputs (clicks, moves, wheel events) in one run
MaxPending == 1      \* transitions scheduled and not yet started
MaxTime    == 1439   \* last minute of the day
TimeStep   == 10     \* granularity of the time prop, in minutes

WinWidths  == {MobileBreak - 1, MobileBreak, MobileBreak + 1}   \* window.innerWidth
PanDeltas  == {<<100, 100>>, <<-100, -100>>, <<-100, 0>>, <<0, 100>>}   \* drag steps
WheelFactors == {<<2, 1>>, <<1, 2>>, <<16, 1>>}  \* 2 ^ wheel delta

----------------------------------------------------------------------------
(* Boundary data, inset layout.                                            *)

DROM_CODES == <<"971", "972", "973", "974", "976">>

DromCodeSet == {DROM_CODES[i] : i \in 1..Len(DROM_CODES)}

Box(x0, y0, x1, y1) == [x0 |-> x0, y0 |-> y0, x1 |-> x1, y1 |-> y1]

getDromConfigStacked(mobile) ==
    [c \in DromCodeSet |->
        CASE c = "971" -> [name |-> "Guadeloupe", initials |-> "GP", box |-> Box(5, 20, 75, 100)]
          [] c = "972" -> [name |-> "Martinique", initials |-> "MQ", box |-> Box(5, 20, 75, 100)]
          [] c = "973" -> [name |-> "Guyane", initials |-> "GF", box |-> Box(5, 20, 75, 100)]
          [] c = "974" -> [name |-> "La Reunion", initials |-> "RE", box |-> Box(5, 20, 75, 100)]
          [] c = "976" -> [name |-> "Mayotte", initials |-> "YT", box |-> Box(5, 20, 75, 100)]]

\* getDromConfig(isMobile): name, initials and box of each inset code.
\* Coordinates are in viewBox units; the mobile startX (550 - 348) / 2 = 101
\* is an integer.
getDromConfig(mobile) ==
    IF mobile
    THEN LET boxSize == 60
             gap == 12
             totalWidth == (boxSize * 5) + (gap * 4)
             startX == (CanvasWidth - totalWidth) \div 2
             startY == 390
             B(i) == Box(startX + i * (boxSize + gap), startY,
                         startX + i * (boxSize + gap) + boxSize, startY + boxSize)
         IN  [c \in DromCodeSet |->
                CASE c = "971" -> [name |-> "Guadeloupe", initials |-> "GP", box |-> B(0)]
                  [] c = "972" -> [name |-> "Martinique", initials |-> "MQ", box |-> B(1)]
                  [] c = "973" -> [name |-> "Guyane", initials |-> "GF", box |-> B(2)]
                  [] c = "974" -> [name |-> "La Reunion", initials |-> "RE", box |-> B(3)]
                  [] c = "976" -> [name |-> "Mayotte", initials |-> "YT", box |-> B(4)]]
    ELSE [c \in DromCodeSet |->
                CASE c = "971" -> [name |-> "Guadeloupe", initials |-> "GP", box |-> Box(5, 20, 75, 100)]
                  [] c = "972" -> [name |-> "Martinique", initials |-> "MQ", box |-> Box(5, 120, 75, 200)]
                  [] c = "973" -> [name |-> "Guyane", initials |-> "GF", box |-> Box(5, 220, 75, 300)]
                  [] c = "974" -> [name |-> "La Reunion", initials |-> "RE", box |-> Box(5, 320, 75, 400)]
                  [] c = "976" -> [name |-> "Mayotte", initials |-> "YT", box |-> Box(5, 420, 75, 500)]]

\* A region code as the boundary file carries it: a JSON string, or a JSON
\* number.
Str(s) == [str |-> s]
Num(n) == [num |-> n]

Digit(d) ==
    CASE d = 0 -> "0" [] d = 1 -> "1" [] d = 2 -> "2" [] d = 3 -> "3"
      [] d = 4 -> "4" [] d = 5 -> "5" [] d = 6 -> "6" [] d = 7 -> "7"
      [] d = 8 -> "8" [] d = 9 -> "9"

RECURSIVE NatToString(_)
NatToString(n) ==
    IF n < 10 THEN Digit(n) ELSE NatToString(n \div 10) \o Digit(n % 10)

\* String(f.properties.code)
String(v) == IF "str" \in DOMAIN v THEN v.str ELSE NatToString(v.num)

\* A feature: properties { code, nom } and a geometry.  The geometry is
\* represented by what fitting and drawing it gives: "usable" (a path
\* string), "empty" (an empty ring list: the path generator returns null)
\* or "raises" (the projection throws).
Feature(code, nom, geometry) ==
    [properties |-> [code |-> code, nom |-> nom], geometry |-> geometry]

\* What the fetch can deliver.  A well-formed collection: two mainland
\* departments and four of the five insets, one with an empty ring list, one
\* whose projection throws, one with a numeric code.
LoadedData ==
    [features |-> << Feature(Str("01"), "Ain", "usable"),
                     Feature(Str("75"), "Paris", "usable"),
                     Feature(Str("971"), "Guadeloupe", "usable"),
                     Feature(Str("973"), "Guyane", "raises"),
                     Feature(Str("974"), "La Reunion", "empty"),
                     Feature(Num(976), "Mayotte", "usable") >>]

\* Malformed bodies: an object without a features field, and a collection
\* with an element that has no properties.
NoFeaturesData   == [type |-> "FeatureCollection"]
NoPropertiesData == [features |-> << [geometry |-> "usable"] >>]

\* The catch branch of the fetch effect: setGeoData({ features: [] }).
EmptyData == [features |-> << >>]

NoData == [null |-> TRUE]    \* useState(null)

\* The values response.json() can resolve to: the boundary collection, the
\* malformed bodies, and the JSON text null.
FetchedValues == {LoadedData, NoFeaturesData, NoPropertiesData, NoData}

----------------------------------------------------------------------------
(* Geometry source adapter: the two filters of the render.                 *)

\* geoData.features is truthy (the model's features values are arrays).
HasFeatures(data) == "features" \in DOMAIN data

\* f.properties.code on a feature without properties throws a TypeError.
HasProperties(f) == "properties" \in DOMAIN f

\* The filter callback throws on some element.
FilterThrows(data) ==
    /\ HasFeatures(data)
    /\ \E i \in 1..Len(data.features) : ~HasProperties(data.features[i])

IsDromStrict(f) ==
    /\ "str" \in DOMAIN f.properties.code
    /\ f.properties.code.str \in DromCodeSet

\* DROM_CODES.includes(String(f.properties.code))
IsDrom(f) == String(f.properties.code) \in DromCodeSet

RECURSIVE SeqFilter(_, _)
SeqFilter(seq, inset) ==
    IF seq = << >> THEN << >>
    ELSE IF IsDrom(Head(seq)) = inset
         THEN <<Head(seq)>> \o SeqFilter(Tail(seq), inset)
         ELSE SeqFilter(Tail(seq), inset)

\* geoData.features ? geoData.features.filter(f => !DROM_CODES.includes(...)) : []
metropoleFeatures(data) ==
    IF HasFeatures(data) THEN SeqFilter(data.features, FALSE) ELSE << >>

\* geoData.features ? geoData.features.filter(f => DROM_CODES.includes(...)) : []
dromFeatures(data) ==
    IF HasFeatures(data) THEN SeqFilter(data.features, TRUE) ELSE << >>

----------------------------------------------------------------------------
(* Inset rendering: one group per code of DROM_CODES.                      *)

RECURSIVE Find(_, _)
\* dromFeatures.find(f => String(f.properties.code) === code): the first
\* match, or no feature.
Find(seq, code) ==
    IF seq = << >> THEN [found |-> FALSE]
    ELSE IF String(Head(seq).properties.code) = code
         THEN [found |-> TRUE, feature |-> Head(seq)]
         ELSE Find(Tail(seq), code)

NoPath == "undefined"

\* The path string of a feature fitted into a box.
PathOf(feature, box) == <<"path", feature.properties.nom, box>>

InsetGroupNoCatch(data, config, code) ==
    LET hit == Find(dromFeatures(data), code)
        geometry == IF hit.found THEN hit.feature.geometry ELSE "absent"
        dAttribute == IF geometry = "usable"
                      THEN PathOf(hit.feature, config[code].box)
                      ELSE <<NoPath>>
    IN  [threw    |-> geometry = "raises",
         box      |-> config[code].box,
         path     |-> dAttribute,
         initials |-> IF dAttribute = <<NoPath>> THEN config[code].initials ELSE "",
         label    |-> config[code].name]

\* The body of DROM_CODES.map for one code: dAttribute stays undefined when
\* there is no feature or the projection throws (caught), and is null when
\* the path generator yields no path; the group always has the rect and the
\* name label, and the path or else the initials text.
InsetGroup(data, config, code) ==
    LET hit == Find(dromFeatures(data), code)
        geometry == IF hit.found THEN hit.feature.geometry ELSE "absent"
        dAttribute == IF geometry = "usable"
                      THEN PathOf(hit.feature, config[code].box)
                      ELSE <<NoPath>>
    IN  [threw    |-> FALSE,
         box      |-> config[code].box,
         path     |-> dAttribute,
         initials |-> IF dAttribute = <<NoPath>> THEN config[code].initials ELSE "",
         label    |-> config[code].name]

----------------------------------------------------------------------------
(* State.                                                                  *)

VARIABLES
    mounted,          \* the mount effects have run
    innerWidth,       \* window.innerWidth
    isMobile,         \* useState(false)
    geoData,          \* useState(null): NoData or a feature collection
    fetchStatus,      \* the fetch promise: "idle", "pending", "resolved", "failed"
    dromConfig,       \* useMemo(getDromConfig(isMobile)): the rendered inset layout
    zoomBehaviorRef,  \* useRef(null): NoBehavior or the attached behaviour
    transform,        \* the svg's zoom transform = the content group's transform
    pending,          \* transitions created by the buttons, not yet started
    anim,             \* the running transition: NoAnim or [op, from, to] and
                      \* (history) the transition it interrupted
    gesture,          \* the pointer gesture in progress: "none", "mouse", "touch"
    hoveredDept,      \* useState(null): "null" or a region name
    selectedRegion,   \* prop, owned by the host: "null" or a region name
    onSelectCalls,    \* the arguments onSelect was called with, in order
    pointer,          \* history: the regions entered and not left since, and
                      \* whether every enter came after the previous leave
    time,             \* prop: minutes since midnight
    month,            \* prop: key into SOLAR_TIMES
    SOLAR_TIMES,      \* the imported table: month -> window or undefined
    isNight,          \* useMemo over [time, month]
    highlightColor,   \* useMemo over [time, month]
    steps,            \* inputs consumed (model bound)
    lastEvent         \* history: the last event handled and the transform before it

vars == <<mounted, innerWidth, isMobile, geoData, fetchStatus, dromConfig,
          zoomBehaviorRef, transform, pending, anim, gesture, hoveredDept,
          selectedRegion, onSelectCalls, pointer, time, month, SOLAR_TIMES,
          isNight, highlightColor, steps, lastEvent>>

lifeVars  == <<mounted, innerWidth, isMobile, geoData, fetchStatus, dromConfig>>
viewVars  == <<zoomBehaviorRef, transform, pending, anim, gesture>>
hoverVars == <<hoveredDept, selectedRegion, onSelectCalls, pointer>>
solarVars == <<time, month, SOLAR_TIMES, isNight, highlightColor>>

NoBehavior == [attached |-> FALSE]
Behavior(h) == [attached |-> TRUE, extentH |-> h]   \* translateExtent height

NoAnim == [running |-> FALSE]
Anim(op, a, b, prev) ==
    [running |-> TRUE, op |-> op, from |-> a, to |-> b, superseded |-> prev]

Event(name, arg, ctrlKey) ==
    [name |-> name, arg |-> arg, ctrlKey |-> ctrlKey, from |-> transform,
     hovered |-> hoveredDept]

\* What the last render produced: the loading placeholder while geoData is
\* falsy, nothing when a filter callback threw (the exception leaves the
\* render and the component tree is removed), the map otherwise.
Rendered ==
    IF geoData = NoData THEN "loading"
    ELSE IF FilterThrows(geoData) THEN "error"
    ELSE "map"

\* The svg (and so svgRef.current / contentGroupRef.current) exists only when
\* the last render produced the map.
svgRef == Rendered = "map"

\* The names the rendered shapes report: nom of each mainland feature, and
\* config.name of each of the five inset groups.
MainlandNames == IF svgRef
                 THEN {metropoleFeatures(geoData)[i].properties.nom :
                          i \in 1..Len(metropoleFeatures(geoData))}
                 ELSE {}
InsetNames    == IF svgRef THEN {dromConfig[c].name : c \in DromCodeSet} ELSE {}
RegionNames   == MainlandNames \cup InsetNames

\* Height of the svg's viewBox, from which d3 takes the viewport extent.
ViewBoxH == CanvasHeight(isMobile)

----------------------------------------------------------------------------
(* Temporal overlay calculator.                                            *)

Undefined == [defined |-> FALSE]
Window(sr, ss) == [defined |-> TRUE, sunrise |-> sr, sunset |-> ss]

DefaultSunrise == 360
DefaultSunset  == 1080

SolarOfNoonDefault(table, m) ==
    IF m \in DOMAIN table /\ table[m].defined
    THEN table[m]
    ELSE Window(DefaultSunrise, 720)

\* SOLAR_TIMES[month] || { sunrise: 360, sunset: 1080 }
SolarOf(table, m) ==
    IF m \in DOMAIN table /\ table[m].defined
    THEN table[m]
    ELSE Window(DefaultSunrise, DefaultSunset)

IsNightOfAfterSunset(t, solar) == t > solar.sunset

\* time < solar.sunrise || time > solar.sunset
IsNightOf(t, solar) == t < solar.sunrise \/ t > solar.sunset

DawnColor  == "#fbbf24"
DayColor   == "#06b6d4"
DuskColor  == "#db2777"
NightColor == "#38bdf8"

HighlightColorInclusive(t, solar) ==
    IF t >= solar.sunrise - 60 /\ t <= solar.sunrise + 30 THEN DawnColor
    ELSE IF t >= solar.sunrise + 30 /\ t <= solar.sunset - 60 THEN DayColor
    ELSE IF t >= solar.sunset - 60 /\ t <= solar.sunset + 60 THEN DuskColor
    ELSE NightColor

\* The three band tests, in the order the code evaluates them; first match
\* wins, night otherwise.
HighlightColorOf(t, solar) ==
    IF t >= solar.sunrise - 60 /\ t < solar.sunrise + 30 THEN DawnColor
    ELSE IF t >= solar.sunrise + 30 /\ t < solar.sunset - 60 THEN DayColor
    ELSE IF t >= solar.sunset - 60 /\ t < solar.sunset + 60 THEN DuskColor
    ELSE NightColor

----------------------------------------------------------------------------
(* Effects.                                                                *)

\* checkMobile: window.innerWidth < 768.
checkMobile(w) == w < MobileBreak

InitializeZoomNoReset(svg, mobile, ref, t, pend, an) ==
    IF ~svg
    THEN [ref |-> ref, transform |-> t, pending |-> pend, anim |-> an]
    ELSE [ref |-> Behavior(CanvasHeight(mobile)), transform |-> t,
          pending |-> pend, anim |-> an]

\* The "Initialize Zoom" effect, run on mount and whenever isMobile changes.
\* Without the svg it returns early; with it, a new behaviour with the
\* device class's pan extent is attached and the transform is set to the
\* identity (selection.call(z.transform, zoomIdentity) interrupts running
\* and scheduled transitions).
InitializeZoom(svg, mobile, ref, t, pend, an) ==
    IF ~svg
    THEN [ref |-> ref, transform |-> t, pending |-> pend, anim |-> an]
    ELSE [ref |-> Behavior(CanvasHeight(mobile)), transform |-> zoomIdentity,
          pending |-> << >>, anim |-> NoAnim]

\* z.filter: which events start a zoom gesture.
zoomFilter(type, ctrlKey) ==
    \/ type = "touchstart"
    \/ type = "mousedown"
    \/ (type = "wheel" /\ ctrlKey)

----------------------------------------------------------------------------
(* Initial state: the component function has run once (first render), no   *)
(* effect has run yet.                                                     *)

Months == {"jan", "xxx"}

InitComponent ==
    /\ mounted = FALSE
    /\ innerWidth \in WinWidths
    /\ isMobile = FALSE
    /\ geoData = NoData
    /\ fetchStatus = "idle"
    /\ dromConfig = getDromConfig(FALSE)
    /\ zoomBehaviorRef = NoBehavior
    /\ transform = zoomIdentity
    /\ pending = << >>
    /\ anim = NoAnim
    /\ gesture = "none"
    /\ hoveredDept = "null"
    /\ onSelectCalls = << >>
    /\ pointer = [inside |-> {}, ordered |-> TRUE]
    /\ steps = 0
    /\ lastEvent = [name |-> "render", arg |-> "", ctrlKey |-> FALSE,
                    from |-> zoomIdentity, hovered |-> "null"]

InitProps ==
    /\ time = 720
    /\ month = "jan"
    /\ SOLAR_TIMES = [m \in {"jan"} |-> Window(510, 1020)]
    /\ selectedRegion = "null"
    /\ isNight = IsNightOf(time, SolarOf(SOLAR_TIMES, month))
    /\ highlightColor = HighlightColorOf(time, SolarOf(SOLAR_TIMES, month))

Init == InitComponent /\ InitProps

----------------------------------------------------------------------------
(* Lifecycle.                                                              *)

\* Mount: the three effects run in order (responsive check, zoom
\* initialisation, fetch); a changed isMobile re-renders and re-runs the
\* zoom initialisation.  The fetch stays pending.
Mount ==
    /\ ~mounted
    /\ mounted' = TRUE
    /\ fetchStatus' = "pending"
    /\ isMobile' = checkMobile(innerWidth)
    /\ dromConfig' = getDromConfig(isMobile')
    /\ LET z == InitializeZoom(svgRef, isMobile', zoomBehaviorRef, transform,
                               pending, anim)
       IN  /\ zoomBehaviorRef' = z.ref
           /\ transform' = z.transform
           /\ pending' = z.pending
           /\ anim' = z.anim
    /\ lastEvent' = Event("Mount", "", FALSE)
    /\ UNCHANGED <<innerWidth, geoData, gesture, hoverVars, solarVars, steps>>

\* The fetch resolves and the body parses to data: setGeoData(data).  The
\* re-render mounts the svg when it gets past the placeholder and the
\* filters; no effect depends on geoData.
FetchResolve(data) ==
    /\ fetchStatus = "pending"
    /\ fetchStatus' = "resolved"
    /\ geoData' = data
    /\ lastEvent' = Event("FetchResolve", "", FALSE)
    /\ UNCHANGED <<mounted, innerWidth, isMobile, dromConfig, viewVars,
                   hoverVars, solarVars, steps>>

\* The fetch fails (network error, or a body that does not parse):
\* setGeoData({ features: [] }).
FetchFail ==
    /\ fetchStatus = "pending"
    /\ fetchStatus' = "failed"
    /\ geoData' = EmptyData
    /\ lastEvent' = Event("FetchFail", "", FALSE)
    /\ UNCHANGED <<mounted, innerWidth, isMobile, dromConfig, viewVars,
                   hoverVars, solarVars, steps>>

\* A resize event: checkMobile, and when isMobile changed the re-render
\* (new dromConfig) and the zoom initialisation effect.  Resize events are
\* taken to arrive between pointer gestures.
Resize(w) ==
    /\ mounted
    /\ Rendered # "error"
    /\ gesture = "none"
    /\ w # innerWidth
    /\ innerWidth' = w
    /\ isMobile' = checkMobile(w)
    /\ dromConfig' = getDromConfig(isMobile')
    /\ LET z == IF isMobile' # isMobile
                THEN InitializeZoom(svgRef, isMobile', zoomBehaviorRef,
                                    transform, pending, anim)
                ELSE [ref |-> zoomBehaviorRef, transform |-> transform,
                      pending |-> pending, anim |-> anim]
       IN  /\ zoomBehaviorRef' = z.ref
           /\ transform' = z.transform
           /\ pending' = z.pending
           /\ anim' = z.anim
    /\ lastEvent' = Event(IF isMobile' # isMobile THEN "DeviceSwitch" ELSE "Resize",
                          "", FALSE)
    /\ UNCHANGED <<mounted, geoData, fetchStatus, gesture, hoverVars, solarVars,
                   steps>>

----------------------------------------------------------------------------
(* Zoom control handlers and the transitions they start.                   *)

OpZoomIn  == [kind |-> "scaleBy", name |-> "zoomIn", f |-> ZoomInFactor]
OpZoomOut == [kind |-> "scaleBy", name |-> "zoomOut", f |-> ZoomOutFactor]
OpReset   == [kind |-> "transform", name |-> "reset", f |-> R(1)]

TransitionTargetScaleOnly(op, t, vh, h) == ScaleBy(t, op.f, vh, h)

\* The end state a transition computes when it starts, from the transform
\* current at that moment.
TransitionTarget(op, t, vh, h) ==
    IF op.kind = "scaleBy" THEN ScaleBy(t, op.f, vh, h) ELSE zoomIdentity

\* A button handler: with the svg and a behaviour present, a transition is
\* created on the svg; otherwise the click does nothing.
ZoomControl(op) ==
    /\ svgRef
    /\ gesture = "none"
    /\ steps < MaxSteps
    /\ Len(pending) < MaxPending
    /\ steps' = steps + 1
    /\ pending' = IF zoomBehaviorRef.attached THEN Append(pending, op) ELSE pending
    /\ lastEvent' = Event(op.name, "", FALSE)
    /\ UNCHANGED <<lifeVars, zoomBehaviorRef, transform, anim, gesture,
                   hoverVars, solarVars>>

handleZoomIn  == ZoomControl(OpZoomIn)
handleZoomOut == ZoomControl(OpZoomOut)
handleReset   == ZoomControl(OpReset)

\* A scheduled transition starts: it interrupts the running one (the
\* transform stays at the frame shown) and computes its end state.
TransitionStart ==
    /\ pending # << >>
    /\ zoomBehaviorRef.attached
    /\ anim' = Anim(Head(pending), transform,
                    TransitionTarget(Head(pending), transform, ViewBoxH,
                                     zoomBehaviorRef.extentH),
                    anim)
    /\ pending' = Tail(pending)
    /\ lastEvent' = Event("TransitionStart", Head(pending).name, FALSE)
    /\ UNCHANGED <<lifeVars, zoomBehaviorRef, transform, gesture, hoverVars,
                   solarVars, steps>>

\* The two views have the same centre: the interpolation only changes the
\* scale about that centre.
Concentric(a, b, vh) ==
    /\ InvertC(a.k, a.x, Rat(CanvasWidth, 2)) = InvertC(b.k, b.x, Rat(CanvasWidth, 2))
    /\ InvertC(a.k, a.y, Rat(vh, 2)) = InvertC(b.k, b.y, Rat(vh, 2))

\* The frame of a concentric transition at which the scale is half way.
MidFrame(a, b, vh) ==
    LET k  == RDiv(RAdd(a.k, b.k), R(2))
        px == Rat(CanvasWidth, 2)
        py == Rat(vh, 2)
    IN  Transform(k, RSub(px, RMul(InvertC(a.k, a.x, px), k)),
                     RSub(py, RMul(InvertC(a.k, a.y, py), k)))

\* An intermediate frame of the running transition is shown.
TransitionFrame ==
    /\ anim.running
    /\ transform = anim.from
    /\ anim.from # anim.to
    /\ Concentric(anim.from, anim.to, ViewBoxH)
    /\ transform' = MidFrame(anim.from, anim.to, ViewBoxH)
    /\ lastEvent' = Event("TransitionFrame", anim.op.name, FALSE)
    /\ UNCHANGED <<lifeVars, zoomBehaviorRef, pending, anim, gesture, hoverVars,
                   solarVars, steps>>

\* The running transition reaches its end state.
TransitionEnd ==
    /\ anim.running
    /\ transform' = anim.to
    /\ anim' = NoAnim
    /\ lastEvent' = Event("TransitionEnd", anim.op.name, FALSE)
    /\ UNCHANGED <<lifeVars, zoomBehaviorRef, pending, gesture, hoverVars,
                   solarVars, steps>>

----------------------------------------------------------------------------
(* Pointer gestures on the svg.                                            *)

\* mousedown / touchstart on the svg or, bubbling, on anything inside it
\* (target is "" for the background, a region's name for its shape; the
\* shapes have no handler for these events): when a behaviour is attached
\* and the filter admits the event, a gesture starts and interrupts
\* transitions.
GestureStart(type, ctrlKey, g, target) ==
    /\ svgRef
    /\ target \in {""} \cup RegionNames
    /\ gesture = "none"
    /\ IF zoomBehaviorRef.attached /\ zoomFilter(type, ctrlKey)
       THEN gesture' = g /\ anim' = NoAnim /\ pending' = << >>
       ELSE UNCHANGED <<gesture, anim, pending>>
    /\ lastEvent' = Event(type, target, ctrlKey)
    /\ UNCHANGED <<lifeVars, zoomBehaviorRef, transform, hoverVars, solarVars, steps>>

MouseDown(ctrlKey, target)  == GestureStart("mousedown", ctrlKey, "mouse", target)
TouchStart(ctrlKey, target) == GestureStart("touchstart", ctrlKey, "touch", target)


\* mousemove / one-finger touchmove during a gesture: pan.
GestureMove(d) ==
    /\ gesture # "none"
    /\ steps < MaxSteps
    /\ steps' = steps + 1
    /\ transform' = PanBy(transform, d[1], d[2], ViewBoxH, zoomBehaviorRef.extentH)
    /\ lastEvent' = Event("move", "", FALSE)
    /\ UNCHANGED <<lifeVars, zoomBehaviorRef, pending, anim, gesture, hoverVars,
                   solarVars>>

\* Viewport points a wheel or pinch can be centred on.
Pointers == {<<0, 0>>, <<CanvasWidth, ViewBoxH>>}

\* two-finger touchmove: scale by f about the point between the fingers.
Pinch(f, p) ==
    /\ gesture = "touch"
    /\ steps < MaxSteps
    /\ steps' = steps + 1
    /\ transform' = ScaleAbout(transform, RMul(transform.k, f), R(p[1]), R(p[2]),
                               ViewBoxH, zoomBehaviorRef.extentH)
    /\ lastEvent' = Event("pinch", "", FALSE)
    /\ UNCHANGED <<lifeVars, zoomBehaviorRef, pending, anim, gesture, hoverVars,
                   solarVars>>

\* mouseup / touchend.
GestureEnd ==
    /\ gesture # "none"
    /\ gesture' = "none"
    /\ lastEvent' = Event("gestureend", "", FALSE)
    /\ UNCHANGED <<lifeVars, zoomBehaviorRef, transform, pending, anim, hoverVars,
                   solarVars, steps>>

\* A wheel event on the svg: admitted by the filter only with Ctrl; an
\* admitted event that changes the (clamped) scale interrupts transitions
\* and zooms about the pointer.
Wheel(ctrlKey, f, p) ==
    /\ svgRef
    /\ gesture = "none"
    /\ steps < MaxSteps
    /\ steps' = steps + 1
    /\ IF /\ zoomBehaviorRef.attached
          /\ zoomFilter("wheel", ctrlKey)
          /\ ClampScale(RMul(transform.k, f)) # transform.k
       THEN /\ transform' = ScaleAbout(transform, RMul(transform.k, f),
                                       R(p[1]), R(p[2]), ViewBoxH,
                                       zoomBehaviorRef.extentH)
            /\ anim' = NoAnim
            /\ pending' = << >>
       ELSE UNCHANGED <<transform, anim, pending>>
    /\ lastEvent' = Event("wheel", "", ctrlKey)
    /\ UNCHANGED <<lifeVars, zoomBehaviorRef, gesture, hoverVars, solarVars>>

----------------------------------------------------------------------------
(* The viewport specification.                                             *)

Next ==
    \/ Mount
    \/ FetchResolve(LoadedData)
    \/ FetchFail
    \/ \E w \in WinWidths : Resize(w)
    \/ handleZoomIn
    \/ handleZoomOut
    \/ handleReset
    \/ TransitionStart
    \/ TransitionFrame
    \/ TransitionEnd
    \/ \E c \in BOOLEAN : MouseDown(c, "")
    \/ \E c \in BOOLEAN : TouchStart(c, "")
    \/ \E d \in PanDeltas : GestureMove(d)
    \/ \E f \in WheelFactors, p \in Pointers : Pinch(f, p)
    \/ GestureEnd
    \/ \E c \in BOOLEAN, f \in WheelFactors, p \in Pointers : Wheel(c, f, p)

Spec == Init /\ [][Next]_vars

----------------------------------------------------------------------------
(* Region shapes: hover and selection.                                     *)

MouseEnterKeepFirst(r) ==
    /\ r \in RegionNames
    /\ steps < MaxSteps
    /\ steps' = steps + 1
    /\ hoveredDept' = IF hoveredDept = "null" THEN r ELSE hoveredDept
    /\ pointer' = [inside |-> pointer.inside \cup {r},
                   ordered |-> pointer.ordered /\ pointer.inside \subseteq {r}]
    /\ lastEvent' = Event("mouseenter", r, FALSE)
    /\ UNCHANGED <<lifeVars, viewVars, selectedRegion, onSelectCalls, solarVars>>

\* onMouseEnter={() => setHoveredDept(nom)}
MouseEnter(r) ==
    /\ r \in RegionNames
    /\ steps < MaxSteps
    /\ steps' = steps + 1
    /\ hoveredDept' = r
    /\ pointer' = [inside |-> pointer.inside \cup {r},
                   ordered |-> pointer.ordered /\ pointer.inside \subseteq {r}]
    /\ lastEvent' = Event("mouseenter", r, FALSE)
    /\ UNCHANGED <<lifeVars, viewVars, selectedRegion, onSelectCalls, solarVars>>

MouseLeaveNoClear(r) ==
    /\ r \in RegionNames
    /\ r \in pointer.inside
    /\ steps < MaxSteps
    /\ steps' = steps + 1
    /\ hoveredDept' = hoveredDept
    /\ pointer' = [pointer EXCEPT !.inside = @ \ {r}]
    /\ lastEvent' = Event("mouseleave", r, FALSE)
    /\ UNCHANGED <<lifeVars, viewVars, selectedRegion, onSelectCalls, solarVars>>

\* onMouseLeave={() => setHoveredDept(null)}.  A leave is delivered for a
\* region only after an enter for it.
MouseLeave(r) ==
    /\ r \in RegionNames
    /\ r \in pointer.inside
    /\ steps < MaxSteps
    /\ steps' = steps + 1
    /\ hoveredDept' = "null"
    /\ pointer' = [pointer EXCEPT !.inside = @ \ {r}]
    /\ lastEvent' = Event("mouseleave", r, FALSE)
    /\ UNCHANGED <<lifeVars, viewVars, selectedRegion, onSelectCalls, solarVars>>

ClickClearsHover(r) ==
    /\ r \in RegionNames
    /\ steps < MaxSteps
    /\ steps' = steps + 1
    /\ onSelectCalls' = Append(onSelectCalls, r)
    /\ hoveredDept' = "null"
    /\ lastEvent' = Event("click", r, FALSE)
    /\ UNCHANGED <<lifeVars, viewVars, selectedRegion, pointer, solarVars>>

\* onClick={(e) => { e.stopPropagation(); onSelect(nom); }}
Click(r) ==
    /\ r \in RegionNames
    /\ steps < MaxSteps
    /\ steps' = steps + 1
    /\ onSelectCalls' = Append(onSelectCalls, r)
    /\ lastEvent' = Event("click", r, FALSE)
    /\ UNCHANGED <<lifeVars, viewVars, hoveredDept, selectedRegion, pointer,
                   solarVars>>

\* Shapes the pointer visits, and values the host passes as selectedRegion.
PointerTargets == {"Ain", "Guadeloupe", "Mayotte"}
HostValues     == {"null", "Ain", "Guadeloupe"}

\* The host re-renders the component with another selectedRegion.
HostSelect(r) ==
    /\ mounted
    /\ Rendered # "error"
    /\ r \in HostValues
    /\ r # selectedRegion
    /\ selectedRegion' = r
    /\ lastEvent' = Event("props", r, FALSE)
    /\ UNCHANGED <<lifeVars, viewVars, hoveredDept, onSelectCalls, pointer,
                   solarVars, steps>>

NextHover ==
    \/ Mount
    \/ FetchResolve(LoadedData)
    \/ FetchFail
    \/ \E w \in WinWidths : Resize(w)
    \/ handleZoomIn
    \/ TransitionStart
    \/ TransitionEnd
    \/ \E r \in PointerTargets : MouseEnter(r)
    \/ \E r \in PointerTargets : MouseLeave(r)
    \/ \E r \in PointerTargets : Click(r)
    \/ \E r \in HostValues : HostSelect(r)

SpecHover == Init /\ [][NextHover]_vars

----------------------------------------------------------------------------
(* Presses on the shapes: the events of a click sequence and the gestures  *)
(* they start.                                                             *)

PressTargets == {"", "Ain", "Guadeloupe"}

NextPress ==
    \/ Mount
    \/ FetchResolve(LoadedData)
    \/ \E w \in WinWidths : Resize(w)
    \/ \E c \in BOOLEAN, r \in PressTargets : MouseDown(c, r)
    \/ \E c \in BOOLEAN, r \in PressTargets : TouchStart(c, r)
    \/ \E d \in PanDeltas : GestureMove(d)
    \/ GestureEnd
    \/ \E r \in PointerTargets : Click(r)

SpecPress == Init /\ [][NextPress]_vars

----------------------------------------------------------------------------
(* Loading: every value the fetch can deliver, and what is rendered from   *)
(* it.                                                                     *)

NextData ==
    \/ Mount
    \/ \E data \in FetchedValues : FetchResolve(data)
    \/ FetchFail
    \/ \E w \in WinWidths : Resize(w)
    \/ \E r \in HostValues : HostSelect(r)
    \/ \E r \in PointerTargets : MouseEnter(r)
    \/ \E r \in PointerTargets : MouseLeave(r)

SpecData == Init /\ [][NextData]_vars

----------------------------------------------------------------------------
(* The temporal overlay: the host changes the time and month props and the *)
(* two memos are recomputed.                                               *)

Times == {t \in 0..MaxTime : t % TimeStep = 0}

\* Solar windows the imported table may hold for a month.
Windows == {Window(360, 1080), Window(510, 1020), Window(300, 1320),
            Window(360, 400), Window(720, 720)}

SetProps(t, m) ==
    /\ mounted
    /\ Rendered # "error"
    /\ <<t, m>> # <<time, month>>
    /\ time' = t
    /\ month' = m
    /\ isNight' = IsNightOf(t, SolarOf(SOLAR_TIMES, m))
    /\ highlightColor' = HighlightColorOf(t, SolarOf(SOLAR_TIMES, m))
    /\ lastEvent' = Event("props", m, FALSE)
    /\ UNCHANGED <<lifeVars, viewVars, hoverVars, SOLAR_TIMES, steps>>

InitSolar ==
    /\ InitComponent
    /\ selectedRegion = "null"
    /\ time \in Times
    /\ month \in Months
    /\ SOLAR_TIMES \in [{"jan"} -> Windows]
    /\ isNight = IsNightOf(time, SolarOf(SOLAR_TIMES, month))
    /\ highlightColor = HighlightColorOf(time, SolarOf(SOLAR_TIMES, month))

NextSolar ==
    \/ Mount
    \/ \E t \in Times : SetProps(t, month)
    \/ \E m \in Months : SetProps(time, m)

SpecSolar == InitSolar /\ [][NextSolar]_vars

----------------------------------------------------------------------------
(* Properties.                                                             *)

InExtent(k) == RLe(R(ScaleMin), k) /\ RLe(k, R(ScaleMax))

\* The bound nearest to a requested scale, the request itself when inside.
NearestInExtent(k) ==
    IF RLt(k, R(ScaleMin)) THEN R(ScaleMin)
    ELSE IF RLt(R(ScaleMax), k) THEN R(ScaleMax)
    ELSE k

C2_ZoomFactorsAsClaimed ==
    anim.running =>
      /\ anim.op.name = "zoomIn" =>
           anim.to.k = RMin(R(8), RMul(<<3, 2>>, anim.from.k))
      /\ anim.op.name = "zoomOut" =>
           anim.to.k = RMax(R(1), RDiv(anim.from.k, <<3, 2>>))

PanLow(k, size) == RMul(R(size), RSub(R(1), k))

C4_ResetRestoresIdentity ==
    /\ (lastEvent.name = "TransitionEnd" /\ lastEvent.arg = "reset")
          => transform = zoomIdentity
    /\ (anim.running /\ anim.op.name = "reset") => anim.to = zoomIdentity
    /\ ~zoomBehaviorRef.attached => transform = zoomIdentity

\* C4 witness: a reset that started from a zoomed and panned transform has
\* just ended.
C4_Witness ==
    /\ lastEvent.name = "TransitionEnd"
    /\ lastEvent.arg = "reset"
    /\ lastEvent.from.k # R(1)
    /\ transform = zoomIdentity

C6_GesturesAsClaimed ==
    /\ (svgRef /\ lastEvent.name \in {"mousedown", "touchstart"})
          => gesture # "none"
    /\ (lastEvent.name = "wheel" /\ ~lastEvent.ctrlKey)
          => transform = lastEvent.from

----------------------------------------------------------------------------
(* Properties of the temporal overlay.                                     *)

CurrentWindow ==
    IF month \in DOMAIN SOLAR_TIMES
    THEN SOLAR_TIMES[month]
    ELSE Window(360, 1080)

InDawn(t, w) == w.sunrise - 60 <= t /\ t < w.sunrise + 30
InDay(t, w)  == w.sunrise + 30 <= t /\ t < w.sunset - 60
InDusk(t, w) == w.sunset - 60 <= t /\ t < w.sunset + 60

BandsAt(t, w) ==
    (IF InDawn(t, w) THEN {DawnColor} ELSE {})
      \cup (IF InDay(t, w) THEN {DayColor} ELSE {})
      \cup (IF InDusk(t, w) THEN {DuskColor} ELSE {})

\* Exactly one of the four bands applies and it is the colour shown.
OneBand(t, w, color) ==
    \/ BandsAt(t, w) = {color}
    \/ BandsAt(t, w) = {} /\ color = NightColor

\* C7 (as claimed): for every time and window exactly one band applies and
\* its colour is shown; with the window (360, 1080), 200 is night, 390 dawn,
\* 500 day and 1100 dusk.
C7_BandsAsClaimed ==
    /\ OneBand(time, CurrentWindow, highlightColor)
    /\ CurrentWindow = Window(360, 1080) =>
         /\ time = 200 => highlightColor = NightColor
         /\ time = 390 => highlightColor = DawnColor
         /\ time = 500 => highlightColor = DayColor
         /\ time = 1100 => highlightColor = DuskColor

\* C7 (amended): for every time and every window with sunset - sunrise >= 90
\* exactly one band applies and its colour is shown; with the window
\* (360, 1080), 200 is night, 390 day, 500 day and 1100 dusk.
C7_BandsDisjoint ==
    /\ CurrentWindow.sunset - CurrentWindow.sunrise >= 90
         => OneBand(time, CurrentWindow, highlightColor)
    /\ CurrentWindow = Window(360, 1080) =>
         /\ time = 200 => highlightColor = NightColor
         /\ time = 390 => highlightColor = DayColor
         /\ time = 500 => highlightColor = DayColor
         /\ time = 1100 => highlightColor = DuskColor

\* C7 witness: the first minute of the day band of the window (360, 1080).
C7_Witness ==
    /\ lastEvent.name = "props"
    /\ CurrentWindow = Window(360, 1080)
    /\ time = 390
    /\ highlightColor = DayColor

\* C8: isNight is true exactly when time < sunrise or time > sunset of the
\* month's window, (360, 1080) when the table has none, and the highlight
\* colour is the one of that same window.
C8_NightWindow ==
    /\ isNight = (time < CurrentWindow.sunrise \/ time > CurrentWindow.sunset)
    /\ \/ BandsAt(time, CurrentWindow) = {} /\ highlightColor = NightColor
       \/ highlightColor \in BandsAt(time, CurrentWindow)

\* C8 witness: a month without a window, after the default sunset.
C8_Witness ==
    /\ month \notin DOMAIN SOLAR_TIMES
    /\ time > 1080
    /\ isNight
    /\ lastEvent.name = "props"

----------------------------------------------------------------------------
(* Properties of hover and selection.                                      *)

\* C9: after an enter on r, hovered is r (whatever was hovered before);
\* after a leave, hovered is none; hovered is none or one rendered region.
C9_HoverFollowsEvents ==
    /\ lastEvent.name = "mouseenter" => hoveredDept = lastEvent.arg
    /\ lastEvent.name = "mouseleave" => hoveredDept = "null"
    /\ hoveredDept \in {"null"} \cup RegionNames

\* C9 witness: an enter on a region while another region was hovered.
C9_Witness ==
    /\ lastEvent.name = "mouseenter"
    /\ lastEvent.hovered \notin {"null", lastEvent.arg}
    /\ hoveredDept = lastEvent.arg

\* C10: a click on a region's shape appends that region's name, once, to the
\* calls of onSelect and changes nothing else: hovered, the transform and
\* its transitions, and the selectedRegion prop stay as they were.
C10_ClickOnlySelects ==
    [][lastEvent'.name = "click" =>
         /\ onSelectCalls' = Append(onSelectCalls, lastEvent'.arg)
         /\ hoveredDept' = hoveredDept
         /\ selectedRegion' = selectedRegion
         /\ UNCHANGED <<lifeVars, viewVars>>]_vars

\* C10 witness: a click on the hovered region while the map is zoomed.
C10_Witness ==
    /\ lastEvent.name = "click"
    /\ hoveredDept = lastEvent.arg
    /\ transform.k # R(1)
    /\ onSelectCalls = <<lastEvent.arg>>

----------------------------------------------------------------------------
(* Properties of loading, the adapter and the inset rendering.             *)

\* C11 (as claimed): once mounted, the loading placeholder is rendered
\* exactly while the fetch is pending; after a failure the collection is the
\* empty one and the map is rendered with no mainland feature.
C11_LoadingWhilePending ==
    /\ mounted => ((Rendered = "loading") <=> (fetchStatus = "pending"))
    /\ fetchStatus = "failed" =>
          /\ geoData = EmptyData
          /\ Rendered = "map"
          /\ metropoleFeatures(geoData) = << >>

\* The geometry of the feature an inset is drawn from, "absent" without one.
GeometryOf(data, code) ==
    LET hit == Find(dromFeatures(data), code)
    IN  IF hit.found THEN hit.feature.geometry ELSE "absent"

\* The collection with only the features of one code.
RECURSIVE OnlyCode(_, _)
OnlyCode(seq, code) ==
    IF seq = << >> THEN << >>
    ELSE IF String(Head(seq).properties.code) = code
         THEN <<Head(seq)>> \o OnlyCode(Tail(seq), code)
         ELSE OnlyCode(Tail(seq), code)

\* C12: whenever the map is rendered, each of the five inset groups is
\* rendered without an exception, with the box and the name of the current
\* layout; it has a path exactly when its feature is present with a usable
\* geometry and the initials text exactly when it has no path; and the group
\* is the same as when the collection holds that code's features only.
C12_InsetsAlwaysRendered ==
    svgRef =>
      \A c \in DromCodeSet :
        LET g == InsetGroup(geoData, dromConfig, c)
        IN  /\ ~g.threw
            /\ g.box = getDromConfig(isMobile)[c].box
            /\ g.label = getDromConfig(isMobile)[c].name
            /\ (g.path # <<NoPath>>) <=> (GeometryOf(geoData, c) = "usable")
            /\ (g.path = <<NoPath>>) <=>
                  (g.initials = getDromConfig(isMobile)[c].initials)
            /\ (g.path # <<NoPath>>) <=> (g.initials = "")
            /\ HasFeatures(geoData) =>
                  g = InsetGroup([features |-> OnlyCode(geoData.features, c)],
                                 dromConfig, c)

\* C12 witness: the loaded collection is rendered on mobile: Guadeloupe has
\* a path, Guyane (projection throws), La Reunion (empty ring list) and
\* Martinique (no feature) show their initials.
C12_Witness ==
    /\ svgRef
    /\ isMobile
    /\ geoData = LoadedData
    /\ InsetGroup(geoData, dromConfig, "971").initials = ""
    /\ InsetGroup(geoData, dromConfig, "973").initials = "GF"
    /\ InsetGroup(geoData, dromConfig, "974").initials = "RE"
    /\ InsetGroup(geoData, dromConfig, "972").initials = "MQ"

\* An empty or malformed collection: no features field, no feature, or an
\* element without properties.
Malformed(data) ==
    \/ ~HasFeatures(data)
    \/ data.features = << >>
    \/ \E i \in 1..Len(data.features) : ~HasProperties(data.features[i])

\* C13 (as claimed): when the fetch delivered an empty or malformed
\* collection, the render does not fail and the adapter yields two empty
\* sequences.
C13_MalformedTolerated ==
    (fetchStatus = "resolved" /\ geoData # NoData /\ Malformed(geoData)) =>
        /\ Rendered = "map"
        /\ metropoleFeatures(geoData) = << >>
        /\ dromFeatures(geoData) = << >>

Range(seq) == {seq[i] : i \in 1..Len(seq)}

\* C17: whenever the map is rendered from a collection, every feature is in
\* exactly one of the two sequences, the two together hold as many elements
\* as the collection, and a feature is in the inset sequence exactly when
\* its code, as a string, is 971, 972, 973, 974 or 976.
C17_AdapterPartitions ==
    (svgRef /\ HasFeatures(geoData)) =>
      LET fs == geoData.features
          M  == metropoleFeatures(geoData)
          D  == dromFeatures(geoData)
      IN  /\ Len(M) + Len(D) = Len(fs)
          /\ Range(M) \cup Range(D) = Range(fs)
          /\ Range(M) \cap Range(D) = {}
          /\ \A f \in Range(fs) :
                (f \in Range(D)) <=>
                   (String(f.properties.code) \in {"971", "972", "973", "974", "976"})

\* C17 witness: the loaded collection has been partitioned into two mainland
\* and four inset features, the one with the numeric code 976 among the
\* insets.
C17_Witness ==
    /\ svgRef
    /\ lastEvent.name = "FetchResolve"
    /\ Len(metropoleFeatures(geoData)) = 2
    /\ Len(dromFeatures(geoData)) = 4
    /\ Feature(Num(976), "Mayotte", "usable") \in Range(dromFeatures(geoData))

----------------------------------------------------------------------------
(* Properties of superseding transitions and of presses on shapes.         *)

\* C14 (as claimed): a transition that interrupted another one, itself
\* started from a settled transform, ends where its operation leads from the
\* end state of the interrupted one (zoomIn twice from scale 1: 2.25).
C14_LatestEndStateAsClaimed ==
    (/\ anim.running
     /\ anim.superseded.running
     /\ ~anim.superseded.superseded.running)
       => anim.to = TransitionTarget(anim.op, anim.superseded.to, ViewBoxH,
                                     zoomBehaviorRef.extentH)

\* C15 (as claimed): a mousedown or touchstart whose target is a region's
\* shape starts no gesture of the zoom behaviour.
C15_PressOnShapeStartsNoGesture ==
    (lastEvent.name \in {"mousedown", "touchstart"} /\ lastEvent.arg # "")
        => gesture = "none"

----------------------------------------------------------------------------
(* Properties of the inset layout, the attached behaviour, the pointer and *)
(* the overlay.                                                            *)

NonOverlapping(a, b) ==
    \/ a.x1 <= b.x0
    \/ b.x1 <= a.x0
    \/ a.y1 <= b.y0
    \/ b.y1 <= a.y0

\* C16: the rendered layout maps exactly the codes 971, 972, 973, 974, 976
\* to boxes that do not overlap pairwise; on desktop the i-th box is 70 x 80
\* at x = 5, y = 20 + 100 i; on mobile it is 60 x 60 at y = 390,
\* x = 101 + 72 i, 101 being (550 - (5 * 60 + 4 * 12)) / 2.
C16_InsetLayout ==
    /\ DOMAIN dromConfig = {"971", "972", "973", "974", "976"}
    /\ \A c, d \in DOMAIN dromConfig :
          c # d => NonOverlapping(dromConfig[c].box, dromConfig[d].box)
    /\ \A i \in 1..Len(DROM_CODES) :
          LET b == dromConfig[DROM_CODES[i]].box
          IN  IF isMobile
              THEN /\ 2 * 101 = 550 - (5 * 60 + 4 * 12)
                   /\ b = Box(101 + 72 * (i - 1), 390,
                              101 + 72 * (i - 1) + 60, 450)
              ELSE b = Box(5, 20 + 100 * (i - 1), 75, 100 + 100 * (i - 1))

\* C16 witness: after a switch to mobile the last box of the row is
\* Mayotte's, at x = 389.
C16_Witness ==
    /\ lastEvent.name = "DeviceSwitch"
    /\ isMobile
    /\ dromConfig["976"].box = Box(389, 390, 449, 450)
    /\ dromConfig["971"].box = Box(101, 390, 161, 450)

\* C18 (as claimed): whenever the map is rendered a zoom behaviour is
\* attached and its pan extent height is that of the device class.
C18_BehaviorAttachedWhenRendered ==
    svgRef =>
      /\ zoomBehaviorRef.attached
      /\ zoomBehaviorRef.extentH = CanvasHeight(isMobile)

\* C19 (as claimed): when an enter was delivered for some region with no
\* leave for it since, hovered is not none.
C19_HoverFollowsPointer ==
    pointer.inside # {} => hoveredDept # "null"

\* C19 (amended): as long as every enter was delivered after the leave of
\* the region entered before, hovered is the region the pointer is inside,
\* and none when it is inside no region.
C19_HoverFollowsOrderedPointer ==
    pointer.ordered =>
      /\ pointer.inside # {} => pointer.inside = {hoveredDept}
      /\ pointer.inside = {} => hoveredDept = "null"

\* C19 witness: the third pointer event, an enter delivered after the leave
\* of the region entered first.
C19_Witness ==
    /\ lastEvent.name = "mouseenter"
    /\ lastEvent.hovered = "null"
    /\ pointer.ordered
    /\ steps >= 3
    /\ onSelectCalls = << >>
    /\ pointer.inside = {hoveredDept}

\* C20: for a window with sunrise <= sunset, the night colour is shown only
\* when isNight is true and the day colour only when it is false.
C20_OverlayAgreesWithColor ==
    CurrentWindow.sunrise <= CurrentWindow.sunset =>
      /\ highlightColor = NightColor => isNight
      /\ highlightColor = DayColor => ~isNight

\* C20 witness: the night colour and the overlay before the dawn band of a
\* window of the table.
C20_Witness ==
    /\ lastEvent.name = "props"
    /\ month \in DOMAIN SOLAR_TIMES
    /\ CurrentWindow.sunrise <= CurrentWindow.sunset
    /\ time < CurrentWindow.sunrise - 60
    /\ highlightColor = NightColor
    /\ isNight

====
